---- MODULE Spec2Model ----
(***************************************************************************)
(* Model of the two Streamlit summarizer scripts                           *)
(*   Summary_Model_Intermidate_1.py   (variant 1: pasted text only)        *)
(*   Summary_Model_Intermediate_2.py  (variant 2: pasted text or upload)   *)
(* One script run (a Streamlit rerun) is one action.  Strings are          *)
(* sequences of one-character strings so that str.strip and str.replace    *)
(* are computed, not assumed.                                              *)
(***************************************************************************)
EXTENDS Integers, Sequences, FiniteSets, TLC

VARIABLES variant, keyPresent, now, ticks, runs, cache,
          extracted_text, use_file_content, last_summary, summary_generated,
          pasted, has_upload, extracted, summary_length, txt_input,
          outcome, form_message, raw, response, calls

vars == <<variant, keyPresent, now, ticks, runs, cache,
          extracted_text, use_file_content, last_summary, summary_generated,
          pasted, has_upload, extracted, summary_length, txt_input,
          outcome, form_message, raw, response, calls>>

\* ---------------------------------------------------------------- bounds
MaxRuns == 2
MaxTicks == 1
MaxPieces == 3

\* ------------------------------------------------------------- constants
TTL == 3600

\* Python None where a str is expected: a value no str equals
None == <<"<None>">>
NoMessage == "none"

\* ------------------------------------------------------ Python str model
Whitespace == {" ", "\n", "\t"}

RECURSIVE lstrip(_)
lstrip(s) ==
    IF s = <<>> THEN <<>>
    ELSE IF Head(s) \in Whitespace THEN lstrip(Tail(s)) ELSE s

RECURSIVE rstrip(_)
rstrip(s) ==
    IF s = <<>> THEN <<>>
    ELSE IF s[Len(s)] \in Whitespace THEN rstrip(SubSeq(s, 1, Len(s) - 1)) ELSE s

strip(s) == rstrip(lstrip(s))

\* str.replace(old, new): left to right, non-overlapping, every occurrence
RECURSIVE replace(_, _, _)
replace(s, old, new) ==
    IF Len(s) < Len(old) THEN s
    ELSE IF SubSeq(s, 1, Len(old)) = old
         THEN new \o replace(SubSeq(s, Len(old) + 1, Len(s)), old, new)
         ELSE <<Head(s)>> \o replace(Tail(s), old, new)

RECURSIVE join(_, _)
join(sep, parts) ==
    IF parts = <<>> THEN <<>>
    ELSE IF Len(parts) = 1 THEN parts[1]
    ELSE parts[1] \o sep \o join(sep, Tail(parts))

RECURSIVE concat(_)
concat(parts) == IF parts = <<>> THEN <<>> ELSE Head(parts) \o concat(Tail(parts))

\* Python truthiness of an Optional[str]
Truthy(x) == x # None /\ x # <<>>

startswith(s, p) == Len(s) >= Len(p) /\ SubSeq(s, 1, Len(p)) = p

\* ------------------------------------------------------ string literals
SummaryLabel == <<"S", "u", "m", "m", "a", "r", "y", ":">>
PleaseEnterValidText ==
    <<"P","l","e","a","s","e"," ","e","n","t","e","r"," ","v","a","l","i","d"," ","t","e","x","t">>
ModelUnavailable ==
    <<"GEAR"," ","M","o","d","e","l"," ","u","n","a","v","a","i","l","a","b","l","e">>
ErrorPrefix == <<"WARN"," ","E","r","r","o","r",":"," ">>
FormWarning == "Please enter text before submitting"
FormSuccess == "Summary ready!"

\* ------------------------------------------------------- input alphabets
\* text_area contents a user can paste
PastedTexts == {<<>>, <<" ">>, <<"a">>}

PdfType == "application/pdf"
DocxType == "application/vnd.openxmlformats-officedocument.wordprocessingml.document"

GoodPdf == [type |-> PdfType, parts |-> << <<"b">> >>, corrupt |-> FALSE]
EmptyPdf == [type |-> PdfType, parts |-> << <<>> >>, corrupt |-> FALSE]
CorruptPdf == [type |-> PdfType, parts |-> <<>>, corrupt |-> TRUE]
BlankDocx == [type |-> DocxType, parts |-> << <<>>, <<>> >>, corrupt |-> FALSE]
NoFile == [type |-> "none", parts |-> <<>>, corrupt |-> FALSE]

\* st.file_uploader(type=["pdf", "docx"]) admits only these two kinds
UploadedFiles == {GoodPdf, EmptyPdf, CorruptPdf, BlankDocx}

\* what chain.run can answer, and the messages it can raise
SessionRaw == {SummaryLabel \o <<" ", "x">>, SummaryLabel}
ErrReasons == {<<"t", "i", "m", "e", "o", "u", "t">>}

RemoteOutcomes ==
    {[ok |-> TRUE, raw |-> r, reason |-> <<>>] : r \in SessionRaw}
    \cup {[ok |-> FALSE, raw |-> None, reason |-> e] : e \in ErrReasons}

\* the sidebar selectbox and length_params of each script
Densities(v) ==
    IF v = 1 THEN {"Concise", "Balanced", "Detailed"} ELSE {"Concise", "Balanced"}

length_params(d) ==
    CASE d = "Concise" -> [max_length |-> 80, min_length |-> 40]
      [] d = "Balanced" -> [max_length |-> 150, min_length |-> 90]
      [] d = "Detailed" -> [max_length |-> 300, min_length |-> 150]

\* ------------------------------------------------------- text extraction
extract_text_from_file(f) ==
    IF f.type = PdfType
    THEN IF f.corrupt THEN None ELSE concat(f.parts)
    ELSE IF f.type = DocxType
         THEN IF f.corrupt THEN None ELSE join(<<"\n">>, f.parts)
         ELSE None

\* session_state after the "Handle file content if uploaded" block
FileContentHandling(f, es, ufc) ==
    IF f # NoFile
    THEN LET ext == extract_text_from_file(f)
         IN IF Truthy(ext)
            THEN [extracted_text |-> ext, use_file_content |-> TRUE, extracted |-> ext]
            ELSE [extracted_text |-> es, use_file_content |-> ufc, extracted |-> ext]
    ELSE [extracted_text |-> es, use_file_content |-> FALSE, extracted |-> None]

ResolveInputPastedFirst(p, es, ufc) ==
    IF p # <<>> THEN p ELSE IF es # None /\ ufc THEN es ELSE p

\* "Use extracted text if available" (lines 110-111)
ResolveInput(p, es, ufc) ==
    IF es # None /\ ufc THEN es ELSE p

\* --------------------------------------------------------- summarization
\* load_summarizer: a chain, or None when construction raised
load_summarizer == IF variant = 1 THEN keyPresent ELSE TRUE

NormalizeSummary(r) == strip(replace(r, SummaryLabel, <<>>))

generate_response_raising(txt, max_len, min_len, remote) ==
    IF ~Truthy(txt) \/ strip(txt) = <<>>
    THEN [value |-> PleaseEnterValidText, outcome |-> "Advisory", called |-> FALSE, raw |-> None]
    ELSE IF ~load_summarizer
    THEN [value |-> ModelUnavailable, outcome |-> "Unavailable", called |-> FALSE, raw |-> None]
    ELSE IF remote.ok
    THEN [value |-> NormalizeSummary(remote.raw), outcome |-> "Succeeded",
          called |-> TRUE, raw |-> remote.raw]
    ELSE [value |-> None, outcome |-> "Failed", called |-> TRUE, raw |-> None]

\* body of generate_response; remote is what chain.run does when called
generate_response(txt, max_len, min_len, remote) ==
    IF ~Truthy(txt) \/ strip(txt) = <<>>
    THEN [value |-> PleaseEnterValidText, outcome |-> "Advisory", called |-> FALSE, raw |-> None]
    ELSE IF ~load_summarizer
    THEN [value |-> ModelUnavailable, outcome |-> "Unavailable", called |-> FALSE, raw |-> None]
    ELSE IF remote.ok
    THEN [value |-> NormalizeSummary(remote.raw), outcome |-> "Succeeded",
          called |-> TRUE, raw |-> remote.raw]
    ELSE [value |-> ErrorPrefix \o remote.reason, outcome |-> "Failed",
          called |-> TRUE, raw |-> None]

\* ----------------------------------------- st.cache_data(ttl=3600) wrapper
CacheKeyContentOnly(txt, max_len, min_len) == <<txt, 0, 0>>

CacheKey(txt, max_len, min_len) == <<txt, max_len, min_len>>

CacheVisibleInclusive(c, k, t) ==
    k \in DOMAIN c /\ t - c[k].insertedAt <= TTL

CacheVisible(c, k, t) ==
    k \in DOMAIN c /\ t - c[k].insertedAt < TTL

CachePut(c, k, v, t) ==
    [x \in DOMAIN c \cup {k} |->
        IF x = k THEN [value |-> v, insertedAt |-> t] ELSE c[x]]

CachedGenerateResponse(txt, max_len, min_len, remote) ==
    LET k == CacheKey(txt, max_len, min_len)
    IN IF CacheVisible(cache, k, now)
       THEN [value |-> cache[k].value, outcome |-> "CacheHit", called |-> FALSE,
             raw |-> None, cache |-> cache]
       ELSE LET g == generate_response(txt, max_len, min_len, remote)
            IN [value |-> g.value, outcome |-> g.outcome, called |-> g.called,
                raw |-> g.raw, cache |-> CachePut(cache, k, g.value, now)]

\* ------------------------------------------------------------ form logic
IsBlankEmptyOnly(txt) == txt = <<>>

\* "if not txt_input.strip()"
IsBlank(txt) == strip(txt) = <<>>

FormResultAlwaysGenerated(txt, d, submit, remote) ==
    IF ~submit
    THEN [outcome |-> "NoSubmit", form_message |-> NoMessage, raw |-> None, response |-> None,
          cache |-> cache, last_summary |-> last_summary,
          summary_generated |-> summary_generated, calls |-> calls]
    ELSE IF IsBlank(txt)
    THEN [outcome |-> "Rejected", form_message |-> FormWarning, raw |-> None,
          response |-> None, cache |-> cache, last_summary |-> <<>>,
          summary_generated |-> TRUE, calls |-> calls]
    ELSE LET params == length_params(d)
             r == CachedGenerateResponse(txt, params.max_length, params.min_length, remote)
         IN [outcome |-> r.outcome, form_message |-> FormSuccess, raw |-> r.raw,
             response |-> r.value, cache |-> r.cache, last_summary |-> r.value,
             summary_generated |-> TRUE,
             calls |-> IF r.called THEN calls + 1 ELSE calls]

\* the summary_form block: what one run leaves behind
FormResult(txt, d, submit, remote) ==
    IF ~submit
    THEN [outcome |-> "NoSubmit", form_message |-> NoMessage, raw |-> None, response |-> None,
          cache |-> cache, last_summary |-> last_summary,
          summary_generated |-> summary_generated, calls |-> calls]
    ELSE IF IsBlank(txt)
    THEN [outcome |-> "Rejected", form_message |-> FormWarning, raw |-> None,
          response |-> None, cache |-> cache, last_summary |-> last_summary,
          summary_generated |-> summary_generated, calls |-> calls]
    ELSE LET params == length_params(d)
             r == CachedGenerateResponse(txt, params.max_length, params.min_length, remote)
         IN [outcome |-> r.outcome, form_message |-> FormSuccess, raw |-> r.raw,
             response |-> r.value, cache |-> r.cache, last_summary |-> r.value,
             summary_generated |-> TRUE,
             calls |-> IF r.called THEN calls + 1 ELSE calls]

\* chain.run is consulted only on the path that reaches it (line 193 / 129)
ReachesChain(txt, d, submit) ==
    /\ submit
    /\ ~IsBlank(txt)
    /\ ~CacheVisible(cache, CacheKey(txt, length_params(d).max_length,
                                     length_params(d).min_length), now)
    /\ load_summarizer

NoRemote == [ok |-> FALSE, raw |-> None, reason |-> <<>>]

SummaryForm(txt, d, submit) ==
    \E remote \in IF ReachesChain(txt, d, submit) THEN RemoteOutcomes ELSE {NoRemote} :
        LET r == FormResult(txt, d, submit, remote)
        IN /\ outcome' = r.outcome
           /\ form_message' = r.form_message
           /\ raw' = r.raw
           /\ response' = r.response
           /\ cache' = r.cache
           /\ last_summary' = r.last_summary
           /\ summary_generated' = r.summary_generated
           /\ calls' = r.calls

\* ------------------------------------------------------------------ Init
Init ==
    /\ variant \in {1, 2}
    /\ keyPresent \in BOOLEAN
    /\ now = 0
    /\ ticks = 0
    /\ runs = 0
    /\ cache = <<>>
    /\ extracted_text = None
    /\ use_file_content = FALSE
    /\ last_summary = None
    /\ summary_generated = FALSE
    /\ pasted = <<>>
    /\ has_upload = FALSE
    /\ extracted = None
    /\ summary_length = "Balanced"
    /\ txt_input = <<>>
    /\ outcome = "Idle"
    /\ form_message = NoMessage
    /\ raw = None
    /\ response = None
    /\ calls = 0

\* --------------------------------------------------------------- actions
\* variant 2, lines 25-30: KeyError -> st.error; st.stop()
EnvironmentValidationStop ==
    /\ variant = 2
    /\ ~keyPresent
    /\ outcome' = "Halted"
    /\ UNCHANGED <<variant, keyPresent, now, ticks, runs, cache, extracted_text,
                   use_file_content, last_summary, summary_generated, pasted,
                   has_upload, extracted, summary_length, txt_input, form_message, raw,
                   response, calls>>

\* one run of Summary_Model_Intermidate_1.py
ScriptRun1(p, d, submit) ==
    /\ variant = 1
    /\ runs < MaxRuns
    /\ runs' = runs + 1
    /\ pasted' = p
    /\ has_upload' = FALSE
    /\ extracted' = None
    /\ summary_length' = d
    /\ txt_input' = p
    /\ SummaryForm(p, d, submit)
    /\ UNCHANGED <<variant, keyPresent, now, ticks, extracted_text, use_file_content>>

\* one run of Summary_Model_Intermediate_2.py
ScriptRun2(p, f, d, submit) ==
    /\ variant = 2
    /\ keyPresent
    /\ runs < MaxRuns
    /\ runs' = runs + 1
    /\ LET st == FileContentHandling(f, extracted_text, use_file_content)
           txt == ResolveInput(p, st.extracted_text, st.use_file_content)
       IN /\ extracted_text' = st.extracted_text
          /\ use_file_content' = st.use_file_content
          /\ pasted' = p
          /\ has_upload' = (f # NoFile)
          /\ extracted' = st.extracted
          /\ summary_length' = d
          /\ txt_input' = txt
          /\ SummaryForm(txt, d, submit)
    /\ UNCHANGED <<variant, keyPresent, now, ticks>>

\* wall-clock time passing between runs
TickDeltas == {TTL - 1, TTL, TTL + 1}

Tick(d) ==
    /\ ticks < MaxTicks
    /\ ticks' = ticks + 1
    /\ now' = now + d
    /\ UNCHANGED <<variant, keyPresent, runs, cache, extracted_text, use_file_content,
                   last_summary, summary_generated, pasted, has_upload,
                   extracted,
                   summary_length, txt_input, outcome, form_message, raw, response,
                   calls>>

Next ==
    \/ EnvironmentValidationStop
    \/ \E p \in PastedTexts, d \in Densities(1), submit \in BOOLEAN :
          ScriptRun1(p, d, submit)
    \/ \E p \in PastedTexts, f \in UploadedFiles \cup {NoFile}, d \in Densities(2),
          submit \in BOOLEAN :
          ScriptRun2(p, f, d, submit)
    \/ \E d \in TickDeltas : Tick(d)

Spec == Init /\ [][Next]_vars

\* ------------------------------------- response normalisation in isolation
\* raw responses built from fragments that matter to replace() and strip()
Pieces == {SummaryLabel, <<"S", "u", "m", "m", "a", "r", "y">>, <<" ">>, <<"\n">>, <<"x">>}

RawResponses ==
    {concat(ps) : ps \in UNION {[1..n -> Pieces] : n \in 0..MaxPieces}}

InitNorm ==
    /\ variant = 2
    /\ keyPresent = TRUE
    /\ now = 0
    /\ ticks = 0
    /\ runs = 0
    /\ cache = <<>>
    /\ extracted_text = None
    /\ use_file_content = FALSE
    /\ last_summary = None
    /\ summary_generated = FALSE
    /\ pasted = <<"a">>
    /\ has_upload = FALSE
    /\ extracted = None
    /\ summary_length = "Balanced"
    /\ txt_input = <<"a">>
    /\ outcome = "Calling"
    /\ form_message = NoMessage
    /\ raw \in RawResponses
    /\ response = None
    /\ calls = 1

\* lines 193-194: chain.run returned raw; return summary.replace(...).strip()
NormalizeResponse ==
    /\ outcome = "Calling"
    /\ response' = NormalizeSummary(raw)
    /\ outcome' = "Succeeded"
    /\ UNCHANGED <<variant, keyPresent, now, ticks, runs, cache, extracted_text,
                   use_file_content, last_summary, summary_generated, pasted,
                   has_upload, extracted, summary_length, txt_input, form_message,
                   raw, calls>>

NextNorm == NormalizeResponse

SpecNorm == InitNorm /\ [][NextNorm]_vars

\* ================================================================ claims
PassedOutcomes == {"CacheHit", "Succeeded", "Failed", "Unavailable", "Advisory"}

\* the (content, density) of the last run, as the memoised call receives it
LastKey ==
    <<txt_input, length_params(summary_length).max_length,
      length_params(summary_length).min_length>>

\* a step that is a run whose submission passed the blank check
ValidSubmissionStep == runs' = runs + 1 /\ outcome' \in PassedOutcomes

\* C1: a submission whose remote call failed leaves no cache entry holding its
\* error string under its (content, density) key.
C1_ServiceErrorNeverCached ==
    outcome = "Failed" =>
        (LastKey \notin DOMAIN cache \/ cache[LastKey].value # response)

\* C2: a valid submission whose exact (content, density) key has an entry younger
\* than TTL returns that entry's value, shows it, and makes no remote call and no
\* cache write; and a hit is only ever served from an entry under exactly that key.
C2_CacheHitWithinTTL ==
    [][ValidSubmissionStep =>
          /\ (LastKey' \in DOMAIN cache /\ now - cache[LastKey'].insertedAt < TTL)
                => /\ response' = cache[LastKey'].value
                   /\ last_summary' = cache[LastKey'].value
                   /\ calls' = calls
                   /\ cache' = cache
          /\ outcome' = "CacheHit"
                => /\ LastKey' \in DOMAIN cache
                   /\ response' = cache[LastKey'].value
                   /\ calls' = calls]_vars

C2_Witness ==
    /\ outcome = "CacheHit"
    /\ now = TTL - 1
    /\ calls = 1
    /\ Cardinality(DOMAIN cache) = 1
    /\ response = cache[LastKey].value

\* C3: in a run where a file is uploaded and its extraction fails (None or empty
\* text), the resolved input is the pasted text.
C3_FailedExtractionFallsBack ==
    (has_upload /\ ~Truthy(extracted)) => txt_input = pasted

\* C4: a submission whose resolved input is blank or whitespace-only is rejected
\* with the fixed warning, makes no remote call and writes nothing to the cache.
C4_BlankNeverCalls ==
    [][(runs' = runs + 1 /\ outcome' # "NoSubmit" /\ strip(txt_input') = <<>>) =>
          /\ outcome' = "Rejected"
          /\ form_message' = FormWarning
          /\ response' = None
          /\ calls' = calls
          /\ cache' = cache]_vars

C4_Witness ==
    /\ outcome = "Rejected"
    /\ txt_input # <<>>
    /\ form_message = FormWarning
    /\ calls = 0

\* C5: with the API key absent no run reaches input validation, the cache or a
\* displayed summary, in either script.
C5_MissingKeyFatal ==
    ~keyPresent =>
        /\ outcome \notin {"Rejected"} \cup PassedOutcomes
        /\ ~summary_generated

\* C6: in every run where the uploaded file is extracted successfully and pasted
\* text is non-empty, the resolved input is the text extracted in that run.
C6_ExtractedOverridesPasted ==
    (has_upload /\ Truthy(extracted) /\ pasted # <<>>) => txt_input = extracted

C6_Witness ==
    /\ has_upload
    /\ Truthy(extracted)
    /\ pasted = <<"a">>
    /\ txt_input = <<"b">>
    /\ runs = 2

\* C7 as stated: every submission that passed validation left a non-empty string.
C7_DoneNonEmpty ==
    outcome \in PassedOutcomes => (last_summary # None /\ last_summary # <<>>)

\* C7 amended: every submission that passed validation left a string value (no
\* fault) that is displayed; after a ServiceError it starts with the error prefix
\* and after an unavailable model it is the fixed message, both non-empty.
C7_DoneHasString ==
    outcome \in PassedOutcomes =>
        /\ summary_generated
        /\ last_summary # None
        /\ last_summary = response
        /\ outcome = "Failed" =>
              (startswith(last_summary, ErrorPrefix) /\ last_summary # <<>>)
        /\ outcome = "Unavailable" => last_summary = ModelUnavailable

C7_Witness ==
    /\ outcome = "Failed"
    /\ summary_generated
    /\ startswith(last_summary, ErrorPrefix)
    /\ Len(last_summary) > Len(ErrorPrefix)

\* C8: for a valid submission whose key has an entry inserted at T, the entry is
\* served exactly when now - T < TTL; at T + TTL - 1 it is served, at T + TTL + 1
\* it behaves as absent: the body runs again (the remote service is called when a
\* chain exists) and the entry is rewritten at the current time.
C8_TTLBoundary ==
    [][(ValidSubmissionStep /\ LastKey' \in DOMAIN cache) =>
          LET T == cache[LastKey'].insertedAt
          IN /\ (outcome' = "CacheHit") <=> (now - T < TTL)
             /\ now = T + TTL - 1 => response' = cache[LastKey'].value
             /\ now = T + TTL + 1 =>
                   /\ outcome' # "CacheHit"
                   /\ cache'[LastKey'].insertedAt = now
                   /\ load_summarizer => calls' = calls + 1]_vars

C8_Witness ==
    /\ now = TTL + 1
    /\ runs = 2
    /\ calls = 2
    /\ outcome \in {"Succeeded", "Failed"}
    /\ DOMAIN cache = {LastKey}
    /\ cache[LastKey].insertedAt = TTL + 1

\* what C9 says the normalisation is: drop a leading label, then trim
StripLeadingLabel(r) ==
    strip(IF startswith(r, SummaryLabel)
          THEN SubSeq(r, Len(SummaryLabel) + 1, Len(r))
          ELSE r)

\* C9: the returned string is the raw response with a leading "Summary:" removed
\* and then trimmed; a "Summary:" elsewhere is preserved.
C9_StripsOnlyLeadingLabel ==
    (outcome = "Succeeded" /\ raw # None) => response = StripLeadingLabel(raw)

\* C10: a run that is rejected as blank (or not submitted) leaves last_summary and
\* summary_generated as they were; a submission that passes validation makes
\* last_summary its result; summary_generated turns true only on such a
\* submission, and whenever it is true there is a summary to show.
C10_RejectedKeepsSummary ==
    [][/\ (runs' = runs + 1 /\ outcome' \in {"Rejected", "NoSubmit"}) =>
             (last_summary' = last_summary /\ summary_generated' = summary_generated)
       /\ ValidSubmissionStep => (last_summary' = response' /\ summary_generated')
       /\ (summary_generated' /\ ~summary_generated) => ValidSubmissionStep
       /\ summary_generated' => last_summary' # None]_vars

C10_Witness ==
    /\ outcome = "Rejected"
    /\ runs = 2
    /\ summary_generated
    /\ last_summary # None

====
